---------------------------- MODULE Spec2Model ----------------------------
(***************************************************************************)
(* A model of the configuration-graph engine of ViPR-SRM-tools:            *)
(*   AlertingConfig/AlertingConfig.py   walkDefinition, AlertingConfig     *)
(*                                      (mk_toc, create_node, add_link)    *)
(*   AlertingConfig/alerting-add-grouplist.py   check_for_orphan_nodes     *)
(*                                      with process's top_nodes and index *)
(* The document is an xml.dom.minidom tree.  A node is a natural number    *)
(* (its identity); 0 is Python's None and -1 is a whitespace text node.    *)
(***************************************************************************)
EXTENDS Integers, Sequences, FiniteSets, TLC

VARIABLES
    root,       \* ac.root.childNodes: sequence of node identities and TEXT
    nodes,      \* every element created so far: identity -> its content
    toc,        \* ac.toc: <<>> while None, else tag -> node (None: no key)
    refChild,   \* ac.refChild: <<>> while None, else tag -> node or None
    idSearched, \* minidom's _id_search_stack: how many trailing children of
                \* the root the current id search has already passed
    lastOp,     \* the last call of the public interface and what it returned
    err,        \* the exception that call raised, "none" when it returned
    ncreate,    \* number of create_node calls made so far
    nlink,      \* number of add_link calls made so far
    fresh,      \* TRUE iff mk_toc ran after the last change of root
    staleInsert,\* TRUE iff create_node ever inserted with a stale refChild
    wpc,        \* walkDefinition: "idle", "run", "returned", "raised"
    wdef,       \* walkDefinition: the definition being walked
    wstack,     \* walkDefinition: the frames of helper, innermost last
    seen,       \* walkDefinition: the set seen
    calls,      \* walkDefinition: the calls of predicate so far, in order:
                \* the element, the parent, the value predicate returned
                \* and the tag of the reference element that was handled
    wresult,    \* walkDefinition: the value returned
    nwalks,     \* number of walkDefinition calls started
    wsteps,     \* walkDefinition: reference elements handled in this call
    top_nodes,  \* process: tag -> list of top-level nodes (<<>> before)
    index,      \* process: id -> node (None: no key)
    ppc,        \* check_for_orphan_nodes: position
    pstack,     \* check_for_orphan_nodes.helper: frames, innermost last
    pret,       \* the set the innermost finished helper call returned
    live,       \* live_entry_points, live_operations, live_actions so far
    unused,     \* lint: ids still to be removed in the current lint
    pruneRuns,  \* number of calls of check_for_orphan_nodes started
    list_by_tagname,  \* report: the ordered dict tag -> list of nodes, as
                      \* a sequence of its items in key order
    index_by_tagname, \* report: tag -> (identifier -> node)
    rpc,        \* generate: "constructed", "prolog", "handlers", "done"
    tocDone,    \* prolog: the tags table_of_contents was called with
    gpos,       \* generate: position in list_by_tagname.items()
    handled,    \* generate: the handler calls made so far, in order
    rootTag,    \* doc.documentElement.tagName
    optimize,   \* TRUE iff the interpreter runs with -O (assert is dropped)
    lpc,        \* AlertingConfig(doc): "parsed", "constructed", "raised",
                \* "deleted"
    validate,   \* MappingMatcher: self.validate.items() in the order the
                \* dict yields them, each a key and its matcher
    other,      \* MappingMatcher.__call__: the object matched
    matched,    \* what the call returned: "none" before, "True", "False"
    mpc,        \* MappingMatcher: "built", "called"
    wanted,     \* remove: the set wanted
    unwanted,   \* remove: the set unwanted
    discard,    \* remove: the set discard
    walked,     \* remove: the unwanted definitions already walked
    rmpc        \* remove: "idle", "walking", "removing", "done", "raised"

docVars   == <<root, nodes, toc, refChild, idSearched, lastOp, err, ncreate, nlink,
               fresh, staleInsert>>
walkVars  == <<wpc, wdef, wstack, seen, calls, wresult, nwalks, wsteps>>
pruneVars == <<top_nodes, index, ppc, pstack, pret, live, unused, pruneRuns>>
reportVars == <<list_by_tagname, index_by_tagname, rpc, tocDone, gpos, handled>>
loadVars   == <<rootTag, optimize, lpc>>
matchVars  == <<validate, other, matched, mpc>>
removeVars == <<wanted, unwanted, discard, walked, rmpc>>
vars      == <<docVars, walkVars, pruneVars, reportVars, loadVars, matchVars,
               removeVars>>

None == 0
TEXT == -1

\* AlertingConfig.allowed_subelements
allowed_subelements ==
    << "adapter-list", "definition-list", "entry-point-list",
       "operation-list", "action-list", "grouped-box-list",
       "component-template-list" >>

Categories == { allowed_subelements[i] : i \in DOMAIN allowed_subelements }

\* position of a category in the fixed order
CatPos(tag) == CHOOSE i \in DOMAIN allowed_subelements : allowed_subelements[i] = tag

(***************************************************************************)
(* Bounds of the model.                                                    *)
(***************************************************************************)
MaxCreate == 2      \* create_node calls per run
MaxLink   == 2      \* add_link calls per run
MaxPerCat == 2      \* nodes of one category in a sorted initial document
MaxWalks  == 2      \* walkDefinition calls per run
MaxPrunes == 2      \* check_for_orphan_nodes calls per run
RecursionLimit == 5 \* depth at which Python raises RecursionError
MaxRelaxedLen == 4  \* elements of an unsorted initial document
MaxReportLen == 2   \* elements of a document handed to the report
MaxKeys == 2        \* keys of a MappingMatcher pattern

(***************************************************************************)
(* Helpers over sequences.                                                 *)
(***************************************************************************)
Range(s) == { s[i] : i \in DOMAIN s }

Max(S) == CHOOSE x \in S : \A y \in S : y <= x
Min(S) == CHOOSE x \in S : \A y \in S : x <= y

\* list.insert(i, x) for 1 <= i <= Len(s)+1
InsertAt(s, i, x) == SubSeq(s, 1, i - 1) \o <<x>> \o SubSeq(s, i, Len(s))

RemoveAt(s, i) == SubSeq(s, 1, i - 1) \o SubSeq(s, i + 1, Len(s))

\* list.index(x), 0 when absent
IndexOf(s, x) ==
    IF \E i \in DOMAIN s : s[i] = x
    THEN Min({ i \in DOMAIN s : s[i] = x })
    ELSE 0

\* check_for_orphan_nodes is not running
PruneQuiet == ppc \in {"unloaded", "idle", "done", "raised"}

(***************************************************************************)
(* The document tree.                                                      *)
(***************************************************************************)
IsElement(c) == c > 0

\* getChildren / findChildren with no predicate: the element children
ElementChildren(r) == SelectSeq(r, IsElement)

tagName(n) == nodes[n].tag

\* node.getAttribute('id'): "" when the attribute is absent
getAttributeId(n) == nodes[n].id

\* node.getElementsByTagName(tag) followed by getText on each element
RefTexts(n, tag) ==
    LET rs == SelectSeq(nodes[n].refs, LAMBDA r : r.tag = tag)
    IN  [ i \in DOMAIN rs |-> rs[i].text ]


(***************************************************************************)
(* xml.dom.minidom: Document.getElementById.  Only attributes declared     *)
(* with setIdAttribute are ids.  The search walks the tree from the last   *)
(* child of the root backwards, caches every id it passes (a later write   *)
(* overwrites an earlier one) and stops at the first match; the cache and  *)
(* the search position are dropped whenever an element is inserted into or *)
(* removed from the tree.                                                  *)
(***************************************************************************)
IdMatch(i, id) ==
    /\ IsElement(root[i])
    /\ nodes[root[i]].isId
    /\ nodes[root[i]].id = id

IdPassed(id) == { i \in (Len(root) - idSearched + 1)..Len(root) : IdMatch(i, id) }

IdAhead(id) == { i \in 1..(Len(root) - idSearched) : IdMatch(i, id) }

getElementById(id) ==
    IF \A n \in DOMAIN nodes : ~nodes[n].isId THEN None
    ELSE IF IdPassed(id) # {} THEN root[Min(IdPassed(id))]
    ELSE IF IdAhead(id) # {} THEN root[Max(IdAhead(id))]
    ELSE None

\* the search position after getElementById(id)
SearchedAfter(id) ==
    IF \A n \in DOMAIN nodes : ~nodes[n].isId THEN idSearched
    ELSE IF IdPassed(id) # {} THEN idSearched
    ELSE IF IdAhead(id) # {} THEN Len(root) - Max(IdAhead(id)) + 1
    ELSE Len(root)

(***************************************************************************)
(* AlertingConfig.mk_toc                                                   *)
(***************************************************************************)
\* itertools.groupby over the element children: the first element of every
\* run of equal tags; dict() keeps the last run of a tag.
RunStarts(els) ==
    { i \in DOMAIN els : i = 1 \/ tagName(els[i - 1]) # tagName(els[i]) }

TocOf(r) ==
    LET els == ElementChildren(r)
    IN  [ t \in Categories |->
            LET starts == { i \in RunStarts(els) : tagName(els[i]) = t }
            IN  IF starts = {} THEN None ELSE els[Max(starts)] ]

\* self.toc.get(tag, child)
TocGet(t, tag, child) == IF t[tag] # None THEN t[tag] ELSE child

\* a faulty variant: child is updated before it is stored in refChild
RECURSIVE CarryUpdatedFirst(_, _)
CarryUpdatedFirst(t, k) ==
    IF k > Len(allowed_subelements) THEN None
    ELSE TocGet(t, allowed_subelements[k], CarryUpdatedFirst(t, k + 1))

\* the value of child when the reversed loop reaches allowed_subelements[k]
RECURSIVE Carry(_, _)
Carry(t, k) ==
    IF k = Len(allowed_subelements) THEN None
    ELSE TocGet(t, allowed_subelements[k + 1], Carry(t, k + 1))

\* a faulty variant: the category right after tag is passed over
RefChildSkipsNext(t) ==
    [ tag \in Categories |->
        Carry(t, Min({CatPos(tag) + 1, Len(allowed_subelements)})) ]

RefChildOf(t) == [ tag \in Categories |-> Carry(t, CatPos(tag)) ]

mk_toc ==
    /\ wpc # "run"
    /\ PruneQuiet
    /\ toc' = TocOf(root)
    /\ refChild' = RefChildOf(TocOf(root))
    /\ fresh' = TRUE
    /\ lastOp' = [op |-> "mk_toc", tag |-> "", id |-> "", a |-> None, b |-> None]
    /\ err' = "none"
    /\ UNCHANGED <<root, nodes, idSearched, ncreate, nlink, staleInsert>>
    /\ UNCHANGED <<walkVars, pruneVars, reportVars, loadVars, matchVars, removeVars>>

(***************************************************************************)
(* AlertingConfig.create_node                                              *)
(***************************************************************************)
\* doc.createElement: a new identity
NewNode == Cardinality(DOMAIN nodes) + 1

\* the exception create_node raises at self.refChild[tag] or in insertBefore
CreateError(tag) ==
    IF DOMAIN refChild = {} THEN "TypeError"
    ELSE IF tag \notin DOMAIN refChild THEN "KeyError"
    ELSE IF refChild[tag] # None /\ IndexOf(root, refChild[tag]) = 0
         THEN "NotFoundErr"
    ELSE "none"

\* a faulty variant: the new node is always appended
RootAfterAppend(r, n, ref) == r \o <<TEXT, n, TEXT>>

\* a faulty variant: the new node goes behind the reference child
RootAfterInsertBehind(r, n, ref) ==
    IF ref = None
    THEN r \o <<TEXT, n, TEXT>>
    ELSE InsertAt(InsertAt(r, IndexOf(r, ref) + 1, n), IndexOf(r, ref) + 1, TEXT)

\* a faulty variant: the new node takes the place of the reference child
RootAfterReplace(r, n, ref) ==
    IF ref = None
    THEN r \o <<TEXT, n, TEXT>>
    ELSE [r EXCEPT ![IndexOf(r, ref)] = n]

\* the three insertBefore calls of create_node
RootAfterCreate(r, n, ref) ==
    IF ref = None
    THEN r \o <<TEXT, n, TEXT>>
    ELSE InsertAt(InsertAt(r, IndexOf(r, ref), n), IndexOf(r, ref) + 1, TEXT)

\* a faulty variant: the indentation is inserted before the reference child
\* is looked up, so that a failing call leaves a text node behind
create_node_indent_first(tag, id, components) ==
    /\ wpc # "run"
    /\ PruneQuiet
    /\ ncreate < MaxCreate
    /\ ncreate' = ncreate + 1
    /\ nlink' = nlink
    /\ err' = CreateError(tag)
    /\ IF CreateError(tag) = "none"
       THEN /\ nodes' = [ n \in DOMAIN nodes \cup {NewNode} |->
                            IF n = NewNode
                            THEN [tag |-> tag, id |-> id, name |-> "",
                                  isId |-> FALSE, refs |-> <<>>,
                                  comps |-> components]
                            ELSE nodes[n] ]
            /\ root' = RootAfterCreate(root, NewNode, refChild[tag])
            /\ idSearched' = 0
            /\ fresh' = FALSE
            /\ staleInsert' = (staleInsert \/ ~fresh)
            /\ lastOp' = [op |-> "create_node", tag |-> tag, id |-> id,
                          a |-> None, b |-> NewNode]
       ELSE /\ root' = root \o <<TEXT>>
            /\ UNCHANGED <<nodes, idSearched, fresh, staleInsert>>
            /\ lastOp' = [op |-> "create_node", tag |-> tag, id |-> id,
                          a |-> None, b |-> None]
    /\ UNCHANGED <<toc, refChild>>
    /\ UNCHANGED <<walkVars, pruneVars, reportVars, loadVars, matchVars, removeVars>>

create_node(tag, id, components) ==
    /\ wpc # "run"
    /\ PruneQuiet
    /\ ncreate < MaxCreate
    /\ ncreate' = ncreate + 1
    /\ nlink' = nlink
    /\ err' = CreateError(tag)
    /\ IF CreateError(tag) = "none"
       THEN /\ nodes' = [ n \in DOMAIN nodes \cup {NewNode} |->
                            IF n = NewNode
                            THEN [tag |-> tag, id |-> id, name |-> "",
                                  isId |-> FALSE, refs |-> <<>>,
                                  comps |-> components]
                            ELSE nodes[n] ]
            /\ root' = RootAfterCreate(root, NewNode, refChild[tag])
            /\ idSearched' = 0
            /\ fresh' = FALSE
            /\ staleInsert' = (staleInsert \/ ~fresh)
            /\ lastOp' = [op |-> "create_node", tag |-> tag, id |-> id,
                          a |-> None, b |-> NewNode]
       ELSE /\ UNCHANGED <<nodes, root, idSearched, fresh, staleInsert>>
            /\ lastOp' = [op |-> "create_node", tag |-> tag, id |-> id,
                          a |-> None, b |-> None]
    /\ UNCHANGED <<toc, refChild>>
    /\ UNCHANGED <<walkVars, pruneVars, reportVars, loadVars, matchVars, removeVars>>

(***************************************************************************)
(* AlertingConfig.add_link                                                 *)
(***************************************************************************)
\* a faulty variant: a link that source already holds is not added again
add_link_once(source, dest, from_attr, to_attr) ==
    /\ wpc # "run"
    /\ PruneQuiet
    /\ nlink < MaxLink
    /\ nlink' = nlink + 1
    /\ ncreate' = ncreate
    /\ LET link == [tag |-> tagName(dest), text |-> getAttributeId(dest),
                    from |-> from_attr, to |-> to_attr]
       IN  nodes' = [ nodes EXCEPT ![source].refs =
                        IF link \in Range(@) THEN @ ELSE Append(@, link) ]
    /\ idSearched' = IF IndexOf(root, source) # 0 THEN 0 ELSE idSearched
    /\ lastOp' = [op |-> "add_link", tag |-> tagName(dest),
                  id |-> getAttributeId(dest), a |-> source, b |-> dest]
    /\ err' = "none"
    /\ UNCHANGED <<root, toc, refChild, fresh, staleInsert>>
    /\ UNCHANGED <<walkVars, pruneVars, reportVars, loadVars, matchVars, removeVars>>

add_link(source, dest, from_attr, to_attr) ==
    /\ wpc # "run"
    /\ PruneQuiet
    /\ nlink < MaxLink
    /\ nlink' = nlink + 1
    /\ ncreate' = ncreate
    /\ nodes' = [ nodes EXCEPT ![source].refs =
                    Append(@, [tag |-> tagName(dest),
                               text |-> getAttributeId(dest),
                               from |-> from_attr, to |-> to_attr]) ]
    /\ idSearched' = IF IndexOf(root, source) # 0 THEN 0 ELSE idSearched
    /\ lastOp' = [op |-> "add_link", tag |-> tagName(dest),
                  id |-> getAttributeId(dest), a |-> source, b |-> dest]
    /\ err' = "none"
    /\ UNCHANGED <<root, toc, refChild, fresh, staleInsert>>
    /\ UNCHANGED <<walkVars, pruneVars, reportVars, loadVars, matchVars, removeVars>>

(***************************************************************************)
(* walkDefinition.  A frame of wstack is one activation: the loop over the *)
(* definition's entry points (phase "entry-point-list") or one call of     *)
(* helper, which first loops over the node's action-list elements and then *)
(* over its operation-list elements; i is the next element of the loop.    *)
(* One step handles one reference element.                                 *)
(***************************************************************************)
\* what a predicate may return: None, a false value that is not None
\* (False, 0, ''), or a true value (the node)
VisitResults == {"None", "False", "True"}

\* a faulty variant: helper starts with its operation loop and has no action
\* loop
FrameSkipsActions(n, phase) ==
    [node |-> n,
     phase |-> IF phase = "action-list" THEN "operation-list" ELSE phase,
     i |-> 1]

Frame(n, phase) == [node |-> n, phase |-> phase, i |-> 1]

\* the innermost frame is at the end of its loop
Exhausted(f) == f.i > Len(RefTexts(f.node, f.phase))

\* leave every finished loop: helper goes from its action loop to its
\* operation loop, then returns None to the loop that called it
RECURSIVE Settle(_)
Settle(st) ==
    IF st = <<>> THEN st
    ELSE LET f == st[Len(st)]
         IN  IF ~Exhausted(f) THEN st
             ELSE IF f.phase = "action-list"
                  THEN Settle([st EXCEPT ![Len(st)] =
                                  [f EXCEPT !.phase = "operation-list", !.i = 1]])
                  ELSE Settle(SubSeq(st, 1, Len(st) - 1))

\* a faulty variant: the test of seen is dropped for operations
NotSeenOperationsAgain(element, s) ==
    element \notin s \/ (element # None /\ tagName(element) = "operation-list")

\* a faulty variant: seen outlives the call
SeenKept == seen

\* "if element not in seen"
NotSeen(element, s) == element \notin s

\* "seen = set()"
InitialSeen == {}

walk_start(definition) ==
    /\ wpc # "run"
    /\ PruneQuiet
    /\ nwalks < MaxWalks
    /\ nwalks' = nwalks + 1
    /\ wdef' = definition
    /\ seen' = InitialSeen
    /\ wsteps' = 0
    /\ calls' = <<>>
    /\ wresult' = "None"
    /\ lastOp' = [op |-> "walkDefinition", tag |-> "", id |-> "",
                  a |-> definition, b |-> None]
    /\ IF tagName(definition) # "definition-list"
       THEN /\ wpc' = "raised"
            /\ err' = "AssertionError"
            /\ wstack' = <<>>
       ELSE /\ err' = "none"
            /\ wstack' = Settle(<<Frame(definition, "entry-point-list")>>)
            /\ wpc' = IF wstack' = <<>> THEN "returned" ELSE "run"
    /\ UNCHANGED <<root, nodes, toc, refChild, idSearched, ncreate, nlink, fresh, staleInsert>>
    /\ UNCHANGED <<pruneVars, reportVars, loadVars, matchVars, removeVars>>

\* one reference element of the innermost loop, with the value the
\* predicate returns should it be called
walk_step(res) ==
    /\ wpc = "run"
    /\ LET f       == wstack[Len(wstack)]
           text    == RefTexts(f.node, f.phase)[f.i]
           element == getElementById(text)
           called  == NotSeen(element, seen)
           next    == [wstack EXCEPT ![Len(wstack)].i = f.i + 1]
       IN  /\ idSearched' = SearchedAfter(text)
           /\ seen' = seen \cup {element}
           /\ IF ~called
              THEN \* seen before: the loop goes on
                   /\ res = "None"
                   /\ calls' = calls
                   /\ wstack' = Settle(next)
                   /\ wpc' = IF wstack' = <<>> THEN "returned" ELSE "run"
                   /\ UNCHANGED <<wresult, err>>
              ELSE /\ calls' = Append(calls, [node |-> element, parent |-> f.node,
                                               result |-> res, tag |-> f.phase])
                   /\ IF f.phase = "action-list"
                      THEN \* result = predicate(element, node)
                           IF res # "None"
                           THEN /\ wresult' = res
                                /\ wstack' = <<>>
                                /\ wpc' = "returned"
                                /\ err' = err
                           ELSE /\ wstack' = Settle(next)
                                /\ wpc' = IF wstack' = <<>> THEN "returned" ELSE "run"
                                /\ UNCHANGED <<wresult, err>>
                      ELSE \* result = predicate(element, node) or helper(element)
                           IF res = "True"
                           THEN /\ wresult' = res
                                /\ wstack' = <<>>
                                /\ wpc' = "returned"
                                /\ err' = err
                           ELSE IF element = None
                           THEN \* helper(None): None.getElementsByTagName
                                /\ wpc' = "raised"
                                /\ err' = "AttributeError"
                                /\ wstack' = <<>>
                                /\ wresult' = wresult
                           ELSE /\ wstack' = Settle(Append(next, Frame(element, "action-list")))
                                /\ wpc' = IF wstack' = <<>> THEN "returned" ELSE "run"
                                /\ UNCHANGED <<wresult, err>>
    /\ UNCHANGED <<root, nodes, toc, refChild, lastOp, ncreate, nlink, fresh, staleInsert>>
    /\ wsteps' = wsteps + 1
    /\ UNCHANGED <<wdef, nwalks>>
    /\ UNCHANGED <<pruneVars, reportVars, loadVars, matchVars, removeVars>>

(***************************************************************************)
(* alerting-add-grouplist.py: process builds top_nodes and index once,     *)
(* check_for_orphan_nodes reads them (and ac) as the names process binds.  *)
(***************************************************************************)
\* every id string of the model; index maps the ids it does not hold to None
IdUniverse == { nodes[n].id : n \in DOMAIN nodes } \ {""}

\* index[id] = node, in document order: the last node with an id wins
IndexOfRoot(r) ==
    LET els == ElementChildren(r)
    IN  [ id \in IdUniverse |->
            LET at == { i \in DOMAIN els : getAttributeId(els[i]) = id }
            IN  IF at = {} THEN None ELSE els[Max(at)] ]

\* top_nodes[node.tagName].append(node)
TopNodesOfRoot(r) ==
    [ t \in Categories |->
        SelectSeq(ElementChildren(r), LAMBDA n : tagName(n) = t) ]

process_load ==
    /\ ppc = "unloaded"
    /\ wpc # "run"
    /\ top_nodes' = TopNodesOfRoot(root)
    /\ index' = IndexOfRoot(root)
    /\ ppc' = "idle"
    /\ lastOp' = [op |-> "process", tag |-> "", id |-> "", a |-> None, b |-> None]
    /\ err' = "none"
    /\ UNCHANGED <<root, nodes, toc, refChild, idSearched, ncreate, nlink, fresh, staleInsert>>
    /\ UNCHANGED <<pstack, pret, live, unused, pruneRuns>>
    /\ UNCHANGED <<walkVars, reportVars, loadVars, matchVars, removeVars>>

\* index[id] raises KeyError
KeyMissing(id) == id \notin DOMAIN index \/ index[id] = None

\* set(node.getAttribute('id') for node in top_nodes[tag_name])
TopIds(tag) == { getAttributeId(top_nodes[tag][i]) : i \in DOMAIN top_nodes[tag] }

\* a faulty variant: a node taken out of the root has lost its elements
Marked2Unlinked(n, tag) ==
    IF IndexOf(root, n) # 0 THEN Range(RefTexts(n, tag)) ELSE {}

\* the texts of the tag_name elements of one node, as a set (marked2)
Marked2(n, tag) == Range(RefTexts(n, tag))

\* helper(node_list, tag_name) without recursion, over nodes
HelperFlat(ns, tag) == UNION { Marked2(n, tag) : n \in ns }

\* check_for_orphan_nodes up to the first lint: live_entry_points
prune_start ==
    /\ ppc \in {"idle", "done"}
    /\ wpc # "run"
    /\ pruneRuns < MaxPrunes
    /\ pruneRuns' = pruneRuns + 1
    /\ LET live_entry_points ==
               HelperFlat(Range(top_nodes["definition-list"]), "entry-point-list")
       IN  /\ live' = [ep |-> live_entry_points, op |-> {}, ac |-> {}]
           /\ unused' = TopIds("entry-point-list") \ live_entry_points
    /\ ppc' = "lint_ep"
    /\ pstack' = <<>>
    /\ pret' = {}
    /\ lastOp' = [op |-> "check_for_orphan_nodes", tag |-> "", id |-> "",
                  a |-> None, b |-> None]
    /\ err' = "none"
    /\ UNCHANGED <<root, nodes, toc, refChild, idSearched, ncreate, nlink, fresh, staleInsert>>
    /\ UNCHANGED <<top_nodes, index>>
    /\ UNCHANGED <<walkVars, reportVars, loadVars, matchVars, removeVars>>

PruneRaise(e) ==
    /\ ppc' = "raised"
    /\ err' = e
    /\ pstack' = <<>>
    /\ unused' = {}
    /\ UNCHANGED <<pret, live>>

\* lint: one turn of "for id in unused: root.removeChild(index[id])"
lint_step(id) ==
    /\ ppc \in {"lint_ep", "lint_op", "lint_ac"}
    /\ id \in unused
    /\ IF KeyMissing(id)
       THEN /\ PruneRaise("KeyError")
            /\ UNCHANGED <<root, idSearched, fresh>>
       ELSE IF IndexOf(root, index[id]) = 0
       THEN /\ PruneRaise("NotFoundErr")
            /\ UNCHANGED <<root, idSearched, fresh>>
       ELSE /\ root' = RemoveAt(root, IndexOf(root, index[id]))
            /\ idSearched' = 0
            /\ fresh' = FALSE
            /\ unused' = unused \ {id}
            /\ UNCHANGED <<ppc, err, pstack, pret, live>>
    /\ UNCHANGED <<nodes, toc, refChild, lastOp, ncreate, nlink, staleInsert>>
    /\ UNCHANGED <<top_nodes, index, pruneRuns>>
    /\ UNCHANGED <<walkVars, reportVars, loadVars, matchVars, removeVars>>

\* lint has returned: the statement of check_for_orphan_nodes after it
lint_done ==
    /\ ppc \in {"lint_ep", "lint_op", "lint_ac"}
    /\ unused = {}
    /\ CASE ppc = "lint_ep" ->
              \* live_operations = helper((index[id] for id in
              \*     live_entry_points), 'operation-list', recursive=True)
              /\ ppc' = "helper"
              /\ pstack' = << [todo |-> live.ep, marked |-> {}, cur |-> {}] >>
              /\ UNCHANGED <<live, unused, err, pret>>
         [] ppc = "lint_op" ->
              \* live_actions = helper(...) | helper(...); lint
              IF \E id \in live.ep \cup live.op : KeyMissing(id)
              THEN PruneRaise("KeyError")
              ELSE LET live_actions ==
                         HelperFlat({ index[id] : id \in live.ep }, "action-list")
                         \cup HelperFlat({ index[id] : id \in live.op }, "action-list")
                   IN  /\ live' = [live EXCEPT !.ac = live_actions]
                       /\ unused' = TopIds("action-list") \ live_actions
                       /\ ppc' = "lint_ac"
                       /\ UNCHANGED <<pstack, err, pret>>
         [] ppc = "lint_ac" ->
              /\ ppc' = "done"
              /\ UNCHANGED <<live, unused, pstack, err, pret>>
    /\ UNCHANGED <<root, nodes, toc, refChild, idSearched, lastOp, ncreate, nlink, fresh, staleInsert>>
    /\ UNCHANGED <<top_nodes, index, pruneRuns>>
    /\ UNCHANGED <<walkVars, reportVars, loadVars, matchVars, removeVars>>

\* helper, recursive: one turn of "for node in node_list", the node being
\* index[id] for an id of the generator's set
helper_step(id) ==
    /\ ppc = "helper"
    /\ pstack # <<>>
    /\ LET f == pstack[Len(pstack)]
       IN  /\ id \in f.todo
           /\ IF KeyMissing(id)
              THEN PruneRaise("KeyError")
              ELSE LET marked2 == Marked2(index[id], "operation-list")
                       rest    == [f EXCEPT !.todo = f.todo \ {id}]
                   IN  IF marked2 = {}
                       THEN /\ pstack' = [pstack EXCEPT ![Len(pstack)] = rest]
                            /\ UNCHANGED <<ppc, err, unused, pret, live>>
                       ELSE IF Len(pstack) >= RecursionLimit
                       THEN PruneRaise("RecursionError")
                       ELSE /\ pstack' = Append(
                                   [pstack EXCEPT ![Len(pstack)] =
                                       [rest EXCEPT !.cur = marked2]],
                                   [todo |-> marked2, marked |-> {}, cur |-> {}])
                            /\ UNCHANGED <<ppc, err, unused, pret, live>>
    /\ UNCHANGED <<root, nodes, toc, refChild, idSearched, lastOp, ncreate, nlink, fresh, staleInsert>>
    /\ UNCHANGED <<top_nodes, index, pruneRuns>>
    /\ UNCHANGED <<walkVars, reportVars, loadVars, matchVars, removeVars>>

\* helper returns marked: "marked2 |= helper(...)", "marked.update(marked2)"
\* in its caller, or live_operations and the second lint
helper_return ==
    /\ ppc = "helper"
    /\ pstack # <<>>
    /\ pstack[Len(pstack)].todo = {}
    /\ LET f == pstack[Len(pstack)]
       IN  IF Len(pstack) = 1
           THEN /\ live' = [live EXCEPT !.op = f.marked]
                /\ unused' = TopIds("operation-list") \ f.marked
                /\ ppc' = "lint_op"
                /\ pstack' = <<>>
                /\ pret' = f.marked
           ELSE LET c == pstack[Len(pstack) - 1]
                IN  /\ pstack' = [SubSeq(pstack, 1, Len(pstack) - 1)
                                    EXCEPT ![Len(pstack) - 1] =
                                      [c EXCEPT !.marked = c.marked \cup c.cur \cup f.marked,
                                                !.cur = {}]]
                    /\ pret' = f.marked
                    /\ UNCHANGED <<live, unused, ppc>>
    /\ err' = err
    /\ UNCHANGED <<root, nodes, toc, refChild, idSearched, lastOp, ncreate, nlink, fresh, staleInsert>>
    /\ UNCHANGED <<top_nodes, index, pruneRuns>>
    /\ UNCHANGED <<walkVars, reportVars, loadVars, matchVars, removeVars>>

(***************************************************************************)
(* src/AlertingConfig.py: the indexing AlertingConfig, its generate, and   *)
(* report.py: ConfigReporter.prolog and table_of_contents.                 *)
(* list_by_tagname is an ordered dict: a sequence of items, each a tag and *)
(* the list of its nodes; a key that is read while missing is added at the *)
(* end with an empty list.  The do_ handlers render HTML and leave both    *)
(* dicts alone: a call is recorded with the listing it received.           *)
(***************************************************************************)
\* node.getAttribute(attr) for the attributes id and name
getAttribute(n, attr) == IF attr = "id" THEN nodes[n].id ELSE nodes[n].name

\* a faulty variant: only the id attribute is tried
IdentifierIdOnly(n) == getAttribute(n, "id")

\* for attr in 'id', 'name': the first non-empty value, "" when there is none
FirstIdentifier(n) ==
    IF getAttribute(n, "id") # "" THEN getAttribute(n, "id")
    ELSE getAttribute(n, "name")

\* position of the key tag in the ordered dict l, 0 when missing
KeyPos(l, tag) ==
    IF \E i \in DOMAIN l : l[i].tag = tag
    THEN CHOOSE i \in DOMAIN l : l[i].tag = tag
    ELSE 0

\* l after reading l[tag]: OrderedDefaultDict.__missing__ adds the key
GetList(l, tag) ==
    IF KeyPos(l, tag) = 0 THEN Append(l, [tag |-> tag, listing |-> <<>>]) ELSE l

\* list_by_tagname[tagName].append(child)
AppendChild(l, tag, child) ==
    LET g == GetList(l, tag)
    IN  [g EXCEPT ![KeyPos(g, tag)].listing = Append(@, child)]

RECURSIVE ListByTagname(_)
\* list_by_tagname after the loop over the element children els of the root
ListByTagname(els) ==
    IF els = <<>> THEN <<>>
    ELSE AppendChild(ListByTagname(SubSeq(els, 1, Len(els) - 1)),
                     tagName(els[Len(els)]), els[Len(els)])

\* index_by_tagname after that loop: the last child with an identifier wins
IndexByTagname(els) ==
    LET idd == { i \in DOMAIN els : FirstIdentifier(els[i]) # "" }
    IN  [ tag \in { tagName(els[i]) : i \in idd } |->
            LET at == { i \in idd : tagName(els[i]) = tag }
            IN  [ id \in { FirstIdentifier(els[i]) : i \in at } |->
                    els[Max({ i \in at : FirstIdentifier(els[i]) = id })] ] ]

\* report.important_basic_information: keyAttr and key_is_path of each tag
important_basic_information ==
    [ tag \in {"adapter-list", "definition-list", "grouped-box-list",
               "component-template-list"} |->
        [keyAttr |-> IF tag = "grouped-box-list" THEN "id" ELSE "name",
         key_is_path |-> (tag = "definition-list")] ]

\* the do_ methods ConfigReporter defines
Handlers == {"adapter-list", "component-template-list", "grouped-box-list",
             "definition-list"}

\* the strings used as sort keys, in the order Python compares strings
Collation == <<"", "a", "a/b", "b">>

StrLess(s, t) == IndexOf(Collation, s) < IndexOf(Collation, t)

\* path.split('/'): of the names in Collation only a/b holds the separator
split(path) == IF path = "a/b" THEN <<"a", "b">> ELSE <<path>>

\* parse_folders: the pieces, folders flagged False and the leaf True
parse_folders(path) ==
    LET pieces == split(path)
    IN  [ i \in DOMAIN pieces |-> <<i = Len(pieces), pieces[i]>> ]

\* Python's order on (flag, piece) tuples: False before True, then the piece
TupleLess(a, b) ==
    \/ a[1] = FALSE /\ b[1] = TRUE
    \/ a[1] = b[1] /\ StrLess(a[2], b[2])

RECURSIVE ListLess(_, _)
\* Python's order on lists of tuples
ListLess(p, q) ==
    IF p = <<>> THEN q # <<>>
    ELSE IF q = <<>> THEN FALSE
    ELSE IF Head(p) = Head(q) THEN ListLess(Tail(p), Tail(q))
    ELSE TupleLess(Head(p), Head(q))

\* the order of the sort key of table_of_contents(tag)
KeyLess(n, m, tag) ==
    LET info == important_basic_information[tag]
    IN  IF info.key_is_path
        THEN ListLess(parse_folders(getAttribute(n, info.keyAttr)),
                      parse_folders(getAttribute(m, info.keyAttr)))
        ELSE StrLess(getAttribute(n, info.keyAttr), getAttribute(m, info.keyAttr))

RECURSIVE sort(_, _)
\* nodes.sort(key=...): a stable sort, in place
sort(ns, tag) ==
    IF ns = <<>> THEN <<>>
    ELSE LET init == sort(SubSeq(ns, 1, Len(ns) - 1), tag)
             x == ns[Len(ns)]
             k == Cardinality({ i \in DOMAIN init : ~KeyLess(x, init[i], tag) })
         IN  InsertAt(init, k + 1, x)

\* generate up to the call of prolog
generate_start ==
    /\ rpc = "constructed"
    /\ rpc' = "prolog"
    /\ gpos' = 1
    /\ handled' = Append(handled, [call |-> "prolog", listing |-> <<>>])
    /\ UNCHANGED <<list_by_tagname, index_by_tagname, tocDone>>
    /\ UNCHANGED <<docVars, walkVars, pruneVars, loadVars, matchVars, removeVars>>

\* prolog: one of its calls of table_of_contents; the keys of
\* important_basic_information come in the order of the dict, which the
\* interpreter chooses
table_of_contents(tag) ==
    /\ rpc = "prolog"
    /\ tag \notin tocDone
    /\ IF tag \notin DOMAIN important_basic_information
       THEN UNCHANGED list_by_tagname
       ELSE LET g == GetList(list_by_tagname, tag)
            IN  list_by_tagname' =
                    [g EXCEPT ![KeyPos(g, tag)].listing = sort(@, tag)]
    /\ tocDone' = tocDone \cup {tag}
    /\ rpc' = IF tocDone' = DOMAIN important_basic_information
              THEN "handlers" ELSE "prolog"
    /\ UNCHANGED <<index_by_tagname, gpos, handled>>
    /\ UNCHANGED <<docVars, walkVars, pruneVars, loadVars, matchVars, removeVars>>

\* generate: one turn of the loop over list_by_tagname.items()
generate_step ==
    /\ rpc = "handlers"
    /\ gpos <= Len(list_by_tagname)
    /\ handled' =
          IF list_by_tagname[gpos].tag \in Handlers
          THEN Append(handled, [call |-> list_by_tagname[gpos].tag,
                                listing |-> list_by_tagname[gpos].listing])
          ELSE handled
    /\ gpos' = gpos + 1
    /\ UNCHANGED <<list_by_tagname, index_by_tagname, rpc, tocDone>>
    /\ UNCHANGED <<docVars, walkVars, pruneVars, loadVars, matchVars, removeVars>>

\* generate: the loop is over, epilog is called
epilog ==
    /\ rpc = "handlers"
    /\ gpos > Len(list_by_tagname)
    /\ rpc' = "done"
    /\ handled' = Append(handled, [call |-> "epilog", listing |-> <<>>])
    /\ UNCHANGED <<list_by_tagname, index_by_tagname, tocDone, gpos>>
    /\ UNCHANGED <<docVars, walkVars, pruneVars, loadVars, matchVars, removeVars>>

(***************************************************************************)
(* Initial states: a parsed document handed to AlertingConfig.__init__.    *)
(***************************************************************************)
\* a parsed top-level element
Parsed(tag, id, name, refs) ==
    [tag |-> tag, id |-> id, name |-> name, isId |-> FALSE,
     refs |-> refs, comps |-> <<>>]

\* a parsed reference element
Ref(tag, text) == [tag |-> tag, text |-> text, from |-> "output", to |-> "entry"]

\* AlertingConfig.__init__: setIdAttribute('id') on every top-level element
\* with a non-empty id
Construct(parsed) ==
    [ n \in DOMAIN parsed |-> [parsed[n] EXCEPT !.isId = (parsed[n].id # "")] ]

\* the children of the root of a pretty-printed document with k elements
PrettyRoot(k) == [ i \in 1..(2 * k + 1) |-> IF i % 2 = 1 THEN TEXT ELSE i \div 2 ]

\* the state of everything but nodes and the constructor's own position
InitDocument(parsed) ==
    /\ root = PrettyRoot(Len(parsed))
    /\ toc = <<>>
    /\ refChild = <<>>
    /\ idSearched = 0
    /\ lastOp = [op |-> "parse", tag |-> "", id |-> "", a |-> None, b |-> None]
    /\ err = "none"
    /\ ncreate = 0
    /\ nlink = 0
    /\ fresh = FALSE
    /\ staleInsert = FALSE
    /\ wpc = "idle"
    /\ wdef = None
    /\ wstack = <<>>
    /\ seen = {}
    /\ calls = <<>>
    /\ wresult = "None"
    /\ nwalks = 0
    /\ wsteps = 0
    /\ top_nodes = <<>>
    /\ index = <<>>
    /\ ppc = "unloaded"
    /\ pstack = <<>>
    /\ pret = {}
    /\ live = [ep |-> {}, op |-> {}, ac |-> {}]
    /\ unused = {}
    /\ pruneRuns = 0
    /\ list_by_tagname = ListByTagname(ElementChildren(root))
    /\ index_by_tagname = IndexByTagname(ElementChildren(root))
    /\ rpc = "constructed"
    /\ tocDone = {}
    /\ gpos = 1
    /\ handled = <<>>
    /\ wanted = {}
    /\ unwanted = {}
    /\ discard = {}
    /\ walked = {}
    /\ rmpc = "idle"

\* no MappingMatcher call is under way
InitMatcherIdle ==
    /\ validate = <<>>
    /\ other = None
    /\ matched = "none"
    /\ mpc = "built"

InitState(parsed) ==
    /\ nodes = Construct(parsed)
    /\ rootTag = "AlertingConfig"
    /\ optimize = FALSE
    /\ lpc = "constructed"
    /\ InitDocument(parsed)
    /\ InitMatcherIdle

\* AlertingConfig.__init__(doc): the assert on the tag of the root, which
\* python -O drops, then setIdAttribute on the top-level elements
construct ==
    /\ lpc = "parsed"
    /\ IF rootTag # "AlertingConfig" /\ ~optimize
       THEN /\ err' = "AssertionError"
            /\ lpc' = "raised"
            /\ UNCHANGED nodes
       ELSE /\ nodes' = Construct(nodes)
            /\ lpc' = "constructed"
            /\ err' = "none"
    /\ lastOp' = [op |-> "construct", tag |-> rootTag, id |-> "", a |-> None, b |-> None]
    /\ UNCHANGED <<root, toc, refChild, idSearched, ncreate, nlink, fresh, staleInsert>>
    /\ UNCHANGED <<rootTag, optimize>>
    /\ UNCHANGED <<walkVars, pruneVars, reportVars, matchVars, removeVars>>

\* a node after Node.unlink: no attributes, no children
Unlinked(node) ==
    [node EXCEPT !.id = "", !.name = "", !.isId = FALSE, !.refs = <<>>, !.comps = <<>>]

\* AlertingConfig.__del__: self.doc.unlink(), run by the interpreter once the
\* object is dropped, also the object a raising __init__ leaves behind
del_object ==
    /\ lpc \in {"constructed", "raised"}
    /\ root' = <<>>
    /\ nodes' = [ n \in DOMAIN nodes |-> Unlinked(nodes[n]) ]
    /\ idSearched' = 0
    /\ lpc' = "deleted"
    /\ lastOp' = [op |-> "del", tag |-> rootTag, id |-> "", a |-> None, b |-> None]
    /\ UNCHANGED <<toc, refChild, err, ncreate, nlink, fresh, staleInsert>>
    /\ UNCHANGED <<rootTag, optimize>>
    /\ UNCHANGED <<walkVars, pruneVars, reportVars, matchVars, removeVars>>

(***************************************************************************)
(* alerting-add-email.py, process: the removal of the unwanted definitions *)
(* and of everything walkDefinition reaches from them.  The walks are the  *)
(* walk_start and walk_step actions with discard.add as predicate, which   *)
(* returns None; what a walk handed over is put into discard when it ends. *)
(* The enabled attribute that process sets on the definitions is not part  *)
(* of a node here.                                                         *)
(***************************************************************************)
WantedName == "EMC M&R Health/Component Availability"

is_wanted(n) == getAttribute(n, "name") = WantedName

\* ac.findChildren(lambda node: node.tagName == 'definition-list')
Definitions ==
    { n \in Range(ElementChildren(root)) : tagName(n) = "definition-list" }

\* the two sets are filled; without a wanted definition process returns
remove_start ==
    /\ rmpc = "idle"
    /\ wpc # "run"
    /\ wanted' = { n \in Definitions : is_wanted(n) }
    /\ unwanted' = { n \in Definitions : ~is_wanted(n) }
    /\ discard' = {}
    /\ walked' = {}
    /\ rmpc' = IF wanted' = {} THEN "done"
             ELSE IF unwanted' = {} THEN "removing"
             ELSE "walking"
    /\ UNCHANGED <<docVars, walkVars, pruneVars, reportVars, loadVars, matchVars>>

\* walkDefinition(node, discard.add) has ended
remove_collect ==
    /\ rmpc = "walking"
    /\ wpc \in {"returned", "raised"}
    /\ wdef \in unwanted \ walked
    /\ discard' = discard \cup { calls[i].node : i \in DOMAIN calls }
    /\ walked' = walked \cup {wdef}
    /\ rmpc' = IF wpc = "raised" THEN "raised"
             ELSE IF walked' = unwanted THEN "removing"
             ELSE "walking"
    /\ UNCHANGED <<wanted, unwanted>>
    /\ UNCHANGED <<docVars, walkVars, pruneVars, reportVars, loadVars, matchVars>>

\* the nodes the removing loop has still to handle
ToRemove == { n \in unwanted \cup discard : n = None \/ IndexOf(root, n) # 0 }

\* one turn of "for node in unwanted | discard", in the order of the set
remove_step(node) ==
    /\ rmpc = "removing"
    /\ node \in ToRemove
    /\ IF node = None
       THEN \* None.previousSibling
            /\ rmpc' = "raised"
            /\ err' = "AttributeError"
            /\ UNCHANGED <<root, nodes, idSearched, fresh>>
       ELSE LET at       == IndexOf(root, node)
                previous == IF at = 1 THEN None ELSE root[at - 1]
            IN  /\ nodes' = [nodes EXCEPT ![node] = Unlinked(@)]
                /\ idSearched' = 0
                /\ fresh' = FALSE
                /\ IF previous = None
                   THEN \* None.nodeType, after the node was removed
                        /\ root' = RemoveAt(root, at)
                        /\ rmpc' = "raised"
                        /\ err' = "AttributeError"
                   ELSE /\ root' = IF previous = TEXT
                                   THEN RemoveAt(RemoveAt(root, at), at - 1)
                                   ELSE RemoveAt(root, at)
                        /\ rmpc' = rmpc
                        /\ err' = "none"
    /\ lastOp' = [op |-> "remove", tag |-> "", id |-> "", a |-> node, b |-> None]
    /\ UNCHANGED <<toc, refChild, ncreate, nlink, staleInsert>>
    /\ UNCHANGED <<wanted, unwanted, discard, walked>>
    /\ UNCHANGED <<walkVars, pruneVars, reportVars, loadVars, matchVars>>

\* the removing loop is over
remove_done ==
    /\ rmpc = "removing"
    /\ ToRemove = {}
    /\ rmpc' = "done"
    /\ UNCHANGED <<wanted, unwanted, discard, walked>>
    /\ UNCHANGED <<docVars, walkVars, pruneVars, reportVars, loadVars, matchVars>>

(***************************************************************************)
(* ObjectMatcher.py: MappingMatcher.  self.validate is a dict from keys to  *)
(* matchers; its items come in the order the dict yields them.  An object  *)
(* is a mapping from some keys to values, or not a mapping at all.          *)
(***************************************************************************)
\* the matchers of a pattern: Exists(), Missing(), Eq(0)
Matchers == {"Exists", "Missing", "Eq0"}

\* matcher(value)
Accepts(matcher, value) ==
    CASE matcher = "Exists"  -> TRUE
      [] matcher = "Missing" -> FALSE
      [] matcher = "Eq0"     -> value = 0

RECURSIVE MappingCall(_, _)
\* MappingMatcher.__call__(other) over the items still to be examined
MappingCall(items, o) ==
    IF items = <<>> THEN TRUE
    ELSE LET key     == Head(items)[1]
             matcher == Head(items)[2]
         IN  IF ~o.isMapping THEN FALSE                         \* TypeError
             ELSE IF key \notin DOMAIN o.map THEN matcher = "Missing" \* KeyError
             ELSE IF ~Accepts(matcher, o.map[key]) THEN FALSE
             ELSE MappingCall(Tail(items), o)

matcher_call ==
    /\ mpc = "built"
    /\ matched' = IF MappingCall(validate, other) THEN "True" ELSE "False"
    /\ mpc' = "called"
    /\ UNCHANGED <<validate, other>>
    /\ UNCHANGED <<docVars, walkVars, pruneVars, reportVars, loadVars, removeVars>>

\* ---- patterns and objects handed to MappingMatcher ----
MatchKeys   == {"foo", "bar", "baz"}
MatchValues == {0, 1}

\* the items of a pattern of distinct keys, in every order a dict may yield
Patterns ==
    { items \in UNION { [ 1..k -> MatchKeys \X Matchers ] : k \in 0..MaxKeys } :
        \A i, j \in DOMAIN items : items[i][1] = items[j][1] => i = j }

Objects ==
    { [isMapping |-> FALSE, map |-> <<>>] }
        \cup { [isMapping |-> TRUE, map |-> f] :
                 f \in UNION { [ K -> MatchValues ] : K \in SUBSET MatchKeys } }

InitMatch ==
    \E items \in Patterns, o \in Objects :
        /\ nodes = <<>>
        /\ rootTag = "AlertingConfig"
        /\ optimize = FALSE
        /\ lpc = "constructed"
        /\ InitDocument(<<>>)
        /\ validate = items
        /\ other = o
        /\ matched = "none"
        /\ mpc = "built"

\* ---- documents whose top-level elements are sorted by category ----
InitCats == {"definition-list", "operation-list", "action-list"}
InitIds  == <<"a", "b", "c", "d">>
DefNames == <<"D1", "D2", "D3", "D4">>

\* cnt[tag] elements of every category, in the fixed order
RECURSIVE SortedFrom(_, _)
SortedFrom(cnt, k) ==
    IF k > Len(allowed_subelements) THEN <<>>
    ELSE LET tag == allowed_subelements[k]
         IN  [ j \in 1..cnt[tag] |->
                 IF tag = "definition-list"
                 THEN Parsed(tag, "", DefNames[j], <<>>)
                 ELSE Parsed(tag, InitIds[j], "", <<>>) ]
             \o SortedFrom(cnt, k + 1)

SortedDocs ==
    { SortedFrom([ t \in Categories |-> IF t \in InitCats THEN c[t] ELSE 0 ], 1) :
        c \in [InitCats -> 0..MaxPerCat] }

InitSorted == \E parsed \in SortedDocs : InitState(parsed)

\* ---- sorted documents in which a category is absent or has one element ----
EditDocs ==
    { SortedFrom([ t \in Categories |-> IF t \in InitCats THEN c[t] ELSE 0 ], 1) :
        c \in [InitCats -> 0..1] }

InitEdit == \E parsed \in EditDocs : InitState(parsed)

\* ---- a parsed document before the constructor ran ----
RootTags == {"AlertingConfig", "Other"}

InitLoad ==
    \E parsed \in SortedDocs, tag \in RootTags, o \in BOOLEAN :
        /\ nodes = parsed
        /\ rootTag = tag
        /\ optimize = o
        /\ lpc = "parsed"
        /\ InitDocument(parsed)
        /\ InitMatcherIdle

\* ---- documents that keep only the first occurrences in order ----
RelaxedCats == {"definition-list", "entry-point-list", "action-list"}
RelaxedIds  == <<"p", "q", "r", "s", "t", "u">>

\* the element at position j of a document with the tags ts
ParsedAt(ts, j) ==
    IF ts[j] = "definition-list"
    THEN Parsed(ts[j], "", RelaxedIds[j], <<>>)
    ELSE Parsed(ts[j], RelaxedIds[j], "", <<>>)

\* the first occurrences of the tags of ts follow allowed_subelements
FirstTagsOrdered(ts) ==
    \A i, j \in DOMAIN ts :
        ( /\ \A k \in 1..(i - 1) : ts[k] # ts[i]
          /\ \A k \in 1..(j - 1) : ts[k] # ts[j]
          /\ CatPos(ts[i]) < CatPos(ts[j]) )
        => i < j

RelaxedDocs ==
    { [ j \in DOMAIN ts |-> ParsedAt(ts, j) ] :
        ts \in { t \in UNION { [1..n -> RelaxedCats] : n \in 1..MaxRelaxedLen } :
                    FirstTagsOrdered(t) } }

InitRelaxed == \E parsed \in RelaxedDocs : InitState(parsed)

\* ---- documents holding a reference graph ----
\* D, E1, O1, O2, Ac1, Ac2 in document order; "zz" is the id of no node
GraphDoc(dRefs, eRefs, o1Refs, o2Refs, ac2id) ==
    << Parsed("definition-list", "", "D", dRefs),
       Parsed("entry-point-list", "E1", "", eRefs),
       Parsed("operation-list", "O1", "", o1Refs),
       Parsed("operation-list", "O2", "", o2Refs),
       Parsed("action-list", "Ac1", "", <<>>),
       Parsed("action-list", ac2id, "", <<>>) >>

EP(text) == Ref("entry-point-list", text)
OP(text) == Ref("operation-list", text)
AC(text) == Ref("action-list", text)

WalkDocs ==
    { GraphDoc(d, e, o1, o2, "Ac2") :
        d  \in { <<EP("E1")>>, <<EP("zz"), EP("E1")>> },
        e  \in { <<OP("O1")>>, <<OP("O2"), AC("Ac1")>>, <<AC("zz"), OP("zz"), OP("O1")>> },
        o1 \in { <<AC("Ac1"), AC("Ac2")>>, <<AC("Ac1"), OP("O2"), OP("O2")>> },
        o2 \in { <<>>, <<OP("O1"), AC("Ac1")>> } }

InitWalk == \E parsed \in WalkDocs : InitState(parsed)

\* ---- reference graphs whose ids cross the categories: a reference element
\* of one tag holding the id of a node of another, an action with the id of
\* an operation ----
MixedDocs ==
    { GraphDoc(<<EP("E1")>>, e, o1, <<>>, a) :
        e  \in { <<OP("O1")>>, <<AC("O1"), OP("O1")>>, <<OP("Ac1"), OP("O1")>> },
        o1 \in { <<AC("Ac1")>>, <<AC("Ac1"), AC("O1")>>, <<AC("O2"), OP("O2")>> },
        a  \in { "Ac2", "O1" } }

InitWalkMixed == \E parsed \in MixedDocs : InitState(parsed)

\* ---- two definitions W and U over E1, E2, O1, Ac1; W may be wanted ----
RemoveDoc(wName, wRefs, uRefs, e1Refs, e2Refs, oRefs) ==
    << Parsed("definition-list", "", wName, wRefs),
       Parsed("definition-list", "", "U", uRefs),
       Parsed("entry-point-list", "E1", "", e1Refs),
       Parsed("entry-point-list", "E2", "", e2Refs),
       Parsed("operation-list", "O1", "", oRefs),
       Parsed("action-list", "Ac1", "", <<>>) >>

RemoveDocs ==
    { RemoveDoc(w, wr, ur, e1, e2, o) :
        w  \in { WantedName, "W" },
        wr \in { <<EP("E1")>> },
        ur \in { <<EP("E2")>>, <<EP("E1")>>, <<EP("zz"), EP("E2")>> },
        e1 \in { <<OP("O1")>>, <<AC("Ac1")>> },
        e2 \in { <<>>, <<OP("O1")>>, <<AC("Ac1")>>, <<AC("zz")>> },
        o  \in { <<>>, <<AC("Ac1")>> } }

InitRemove == \E parsed \in RemoveDocs : InitState(parsed)

PruneDocs ==
    { GraphDoc(d, e, o1, o2, a) :
        d  \in { <<>>, <<EP("E1")>>, <<EP("E1"), EP("zz")>> },
        e  \in { <<OP("O1")>>, <<AC("Ac1")>>, <<OP("O1"), AC("zz")>>, <<OP("zz")>> },
        o1 \in { <<>>, <<AC("Ac1")>>, <<OP("O2")>>, <<OP("O1")>> },
        o2 \in { <<>>, <<OP("O1"), AC("O2")>>, <<AC("Ac2")>> },
        a  \in { "Ac2", "O2" } }

\* documents with a second entry point that no definition references and
\* an operation whose id may be the id of the live entry point
ShadowDoc(eRefs, oRefs, oid) ==
    << Parsed("definition-list", "", "D", <<EP("E1")>>),
       Parsed("entry-point-list", "E1", "", eRefs),
       Parsed("entry-point-list", "E2", "", <<OP("O1"), AC("Ac2")>>),
       Parsed("operation-list", "O1", "", <<AC("Ac1")>>),
       Parsed("operation-list", oid, "", oRefs),
       Parsed("action-list", "Ac1", "", <<>>),
       Parsed("action-list", "Ac2", "", <<>>) >>

ShadowDocs ==
    { ShadowDoc(e, o, oid) :
        e   \in { <<>>, <<OP("O1")>> },
        o   \in { <<AC("Ac2")>>, <<OP("O1"), AC("Ac2")>> },
        oid \in { "O2", "E1" } }

InitPrune == \E parsed \in PruneDocs \cup ShadowDocs : InitState(parsed)

\* documents with an unused operation and an unused action, followed by a
\* node of a later category whose id may be the id of one of them
BoxDoc(eRefs, oRefs, tag, id) ==
    << Parsed("definition-list", "", "D", <<EP("E1")>>),
       Parsed("entry-point-list", "E1", "", eRefs),
       Parsed("operation-list", "O1", "", oRefs),
       Parsed("operation-list", "O2", "", <<>>),
       Parsed("action-list", "Ac1", "", <<>>),
       Parsed("action-list", "Ac2", "", <<>>),
       Parsed(tag, id, "", <<>>) >>

BoxDocs ==
    { BoxDoc(e, o, tag, id) :
        e   \in { <<OP("O1")>>, <<OP("O1"), AC("Ac1")>> },
        o   \in { <<>>, <<AC("Ac1")>> },
        tag \in { "grouped-box-list", "component-template-list" },
        id  \in { "G1", "O2", "Ac2" } }

InitPruneBox == \E parsed \in BoxDocs : InitState(parsed)

\* ---- documents for the report: any order, with and without id and name ----
ReportCats  == {"definition-list", "grouped-box-list", "operation-list"}
ReportIds   == {"", "b"}
ReportNames == {"", "a", "a/b"}

ReportElements ==
    { Parsed(tag, id, name, <<>>) :
        tag \in ReportCats, id \in ReportIds, name \in ReportNames }

ReportDocs ==
    UNION { [ 1..k -> ReportElements ] : k \in 1..MaxReportLen }

InitReport == \E parsed \in ReportDocs : InitState(parsed)

(***************************************************************************)
(* The inputs of the calls.                                                *)
(***************************************************************************)
CreateTags == Categories \cup {"bogus-list"}
CreateIds  == {"b"}
Components == << <<"name", "", "x">> >>

InRoot(n) == IndexOf(root, n) # 0

LinkSources ==
    { n \in DOMAIN nodes :
        InRoot(n) /\ tagName(n) \in {"entry-point-list", "operation-list"} }
LinkDests ==
    { n \in DOMAIN nodes :
        InRoot(n) /\ tagName(n) \in {"operation-list", "action-list"} }

\* the add_link calls made before a walk: from an operation to an action or
\* to a node made by create_node
WalkLinkSources == { n \in LinkSources : tagName(n) = "operation-list" }
WalkLinkDests ==
    { n \in LinkDests : tagName(n) = "action-list" \/ ~nodes[n].isId }

\* the add_link calls on a document as parsed: between any two top-level
\* elements, with either value of the from attribute
TopElements == { n \in DOMAIN nodes : InRoot(n) }
LinkFroms   == {"true", "output"}

NextCreate ==
    \/ mk_toc
    \/ \E tag \in CreateTags, id \in CreateIds : create_node(tag, id, Components)

NextWalk ==
    \/ nwalks = 0 /\ ncreate = 0 /\ nlink = 0 /\ mk_toc
    \/ nwalks = 0 /\ ncreate = 0 /\ \E tag \in {"action-list", "operation-list"} :
                        create_node(tag, "Ac3", Components)
    \/ nwalks = 0 /\ nlink = 0 /\ \E s \in WalkLinkSources, d \in WalkLinkDests :
                        add_link(s, d, "true", "entry")
    \/ nwalks = 0 /\ lastOp.op = "add_link" /\
                        add_link(lastOp.a, lastOp.b, "true", "entry")
    \/ \E d \in { n \in DOMAIN nodes : tagName(n) = "definition-list" } : walk_start(d)
    \/ \E res \in VisitResults : walk_step(res)

NextPrune ==
    \/ ppc = "unloaded" /\ nlink = 0 /\ \E s \in LinkSources, d \in LinkDests :
                               add_link(s, d, "true", "entry")
    \/ process_load
    \/ prune_start
    \/ \E id \in unused : lint_step(id)
    \/ lint_done
    \/ \E id \in IdUniverse \cup {"zz", ""} : helper_step(id)
    \/ helper_return

NextLink ==
    \/ mk_toc
    \/ nlink = 0 /\ \E s \in TopElements, d \in TopElements, f \in LinkFroms :
                      add_link(s, d, f, "entry")

\* add_new_nodes: create_node calls, each new node linked from a node of the
\* document
NextEdit ==
    \/ mk_toc
    \/ \E tag \in CreateTags, id \in CreateIds : create_node(tag, id, Components)
    \/ /\ lastOp.op = "create_node"
       /\ lastOp.b # None
       /\ \E s \in LinkSources : add_link(s, lastOp.b, "output", "entry")

NextMatch == matcher_call

NextRemove ==
    \/ remove_start
    \/ /\ rmpc = "walking"
       /\ nwalks = Cardinality(walked)
       /\ \E d \in unwanted \ walked : walk_start(d)
    \/ rmpc = "walking" /\ walk_step("None")
    \/ remove_collect
    \/ \E node \in ToRemove : remove_step(node)
    \/ remove_done

NextReport ==
    \/ generate_start
    \/ \E tag \in DOMAIN important_basic_information : table_of_contents(tag)
    \/ generate_step
    \/ epilog

NextLoad ==
    \/ construct
    \/ del_object

Spec      == InitSorted /\ [][NextCreate]_vars
SpecWalk  == InitWalk /\ [][NextWalk]_vars
SpecWalkMixed == InitWalkMixed /\ [][NextWalk]_vars
SpecPrune == InitPrune /\ [][NextPrune]_vars
SpecPruneBox == InitPruneBox /\ [][NextPrune]_vars
SpecRelaxed == InitRelaxed /\ [][NextCreate]_vars
SpecLink  == InitSorted /\ [][NextLink]_vars
SpecReport == InitReport /\ [][NextReport]_vars
SpecLoad  == InitLoad /\ [][NextLoad]_vars
SpecEdit  == InitEdit /\ [][NextEdit]_vars
SpecMatch == InitMatch /\ [][NextMatch]_vars
SpecRemove == InitRemove /\ [][NextRemove]_vars

(***************************************************************************)
(* Properties of create_node and mk_toc, checked under Spec.               *)
(***************************************************************************)
\* the place of the first element of a category among the element children
FirstOf(r, tag) ==
    LET els == ElementChildren(r)
    IN  Min({ i \in DOMAIN els : tagName(els[i]) = tag })

HasCategory(r, tag) ==
    \E i \in DOMAIN r : IsElement(r[i]) /\ tagName(r[i]) = tag

\* the first occurrences of the categories follow allowed_subelements
FirstOccurrencesOrdered(r) ==
    \A j, k \in DOMAIN allowed_subelements :
        ( /\ j < k
          /\ HasCategory(r, allowed_subelements[j])
          /\ HasCategory(r, allowed_subelements[k]) )
        => FirstOf(r, allowed_subelements[j]) < FirstOf(r, allowed_subelements[k])

\* nodes made by create_node: their id was set but never declared an id
CreatedNodes == { n \in DOMAIN nodes : nodes[n].id # "" /\ ~nodes[n].isId }

\* C1 as stated: after any sequence of create_node calls on a sorted
\* document, with or without mk_toc between them, the first occurrences of
\* the categories among the root's element children are in the fixed order.
C1_OrderAfterAnyCreates == FirstOccurrencesOrdered(root)

\* C1 amended: the same, provided mk_toc ran after the last change of the
\* root before every create_node call that inserted a node.
C1_OrderWithRebuild == (~staleInsert) => FirstOccurrencesOrdered(root)

\* two nodes were created, each right after a rebuild, in categories that
\* had no node before; the later call created the earlier category
C1_Witness ==
    /\ ~staleInsert
    /\ lastOp.op = "create_node"
    /\ lastOp.b # None
    /\ \E n \in CreatedNodes \ {lastOp.b} :
          /\ InRoot(n)
          /\ CatPos(tagName(n)) > CatPos(lastOp.tag)
          /\ \A m \in Range(ElementChildren(root)) \ {n, lastOp.b} :
                tagName(m) \notin {tagName(n), lastOp.tag}

\* a top-level node of the category carries the identifier
CarriesId(r, tag, id) ==
    \E i \in DOMAIN r :
        /\ IsElement(r[i])
        /\ tagName(r[i]) = tag
        /\ (IF nodes[r[i]].id # "" THEN nodes[r[i]].id ELSE nodes[r[i]].name) = id

\* C5: create_node with an identifier that a top-level node of the same
\* category already carries fails and leaves the document unchanged.
C5_DuplicateCreateFails ==
    [][ ( /\ ncreate' = ncreate + 1
          /\ CarriesId(root, lastOp'.tag, lastOp'.id) )
        => ( /\ err' # "none"
             /\ root' = root
             /\ nodes' = nodes ) ]_vars

(***************************************************************************)
(* Properties of walkDefinition, checked under SpecWalk.                   *)
(***************************************************************************)
\* the node an id names in the document as it is: a top-level element whose
\* id attribute was declared an id, None when there is none
Target(text) ==
    LET at == { i \in DOMAIN root : IdMatch(i, text) }
    IN  IF at = {} THEN None ELSE root[Max(at)]

Targets(S, tag) == { Target(t) : t \in UNION { Marked2(n, tag) : n \in S } } \ {None}

\* the nodes reached from the definition's entry points along operation-list
\* references
RECURSIVE OperationClosure(_)
OperationClosure(S) ==
    LET T == S \cup Targets(S, "operation-list")
    IN  IF T = S THEN S ELSE OperationClosure(T)

Descended(d) == OperationClosure(Targets({d}, "entry-point-list"))

\* ... and the targets of their action-list references
Reachable(d) == Descended(d) \cup Targets(Descended(d), "action-list")

VisitCount(n) == Cardinality({ i \in DOMAIN calls : calls[i].node = n })

Visited == { calls[i].node : i \in DOMAIN calls }

\* the predicate returned None every time
AllNone == \A i \in DOMAIN calls : calls[i].result = "None"

RECURSIVE CountRefs(_)
CountRefs(S) ==
    IF S = {} THEN 0
    ELSE LET n == CHOOSE x \in S : TRUE
         IN  Len(nodes[n].refs) + CountRefs(S \ {n})

\* two operations that reference each other
Cycle(a, b) ==
    /\ a # b
    /\ tagName(a) = "operation-list"
    /\ tagName(b) = "operation-list"
    /\ b \in Targets({a}, "operation-list")
    /\ a \in Targets({b}, "operation-list")

\* C2: with a predicate that always returns None, walkDefinition ends after
\* at most one step per reference element of the document, also when
\* operations reference each other in a cycle, and when it has returned every
\* node reachable from the definition was handed to the predicate exactly once.
C2_CyclicWalkTerminates ==
    /\ wsteps <= CountRefs(DOMAIN nodes)
    /\ (wpc = "returned" /\ AllNone) =>
          \A n \in Reachable(wdef) : VisitCount(n) = 1

\* a finished walk over two operations that reference each other, the one
\* later in the document reached first
C2_Witness ==
    /\ wpc = "returned"
    /\ AllNone
    /\ \E a, b \in Reachable(wdef) :
          /\ Cycle(a, b)
          /\ \E i, j \in DOMAIN calls :
                i < j /\ calls[i].node = b /\ calls[j].node = a /\ a < b

\* C3: within one walkDefinition call the predicate is called at most once
\* for each node, and seen holds exactly the nodes of this call (it starts
\* empty in every call).
C3_VisitedAtMostOnce ==
    /\ \A i, j \in DOMAIN calls : i # j => calls[i].node # calls[j].node
    /\ seen = Visited

\* the reference elements of the walked nodes that name n
ReferencesTo(n) ==
    { <<s, k>> \in (Descended(wdef) \cup {wdef}) \X (1..8) :
        /\ k \in DOMAIN nodes[s].refs
        /\ nodes[s].refs[k].tag \in {"entry-point-list", "operation-list", "action-list"}
        /\ (s = wdef) = (nodes[s].refs[k].tag = "entry-point-list")
        /\ Target(nodes[s].refs[k].text) = n }

\* a second walk has returned; a node named by two reference elements of one
\* parent and by a reference element of another parent was visited once
C3_Witness ==
    /\ nwalks = 2
    /\ wpc = "returned"
    /\ \E n \in Visited \ {None} :
          /\ \E r1, r2, r3 \in ReferencesTo(n) :
                r1[1] = r2[1] /\ r1[2] # r2[2] /\ r3[1] # r1[1]
          /\ VisitCount(n) = 1

\* C4: a reference that names no node makes walkDefinition raise nothing and
\* the predicate is not called for it.
C4_DanglingSkipped ==
    /\ \A i \in DOMAIN calls : calls[i].node # None
    /\ ~(wpc = "raised" /\ err = "AttributeError")

\* C6: a node made by create_node and linked by add_link from a node that is
\* reached from the definition is handed to the predicate exactly once by a
\* later walkDefinition whose predicate collects (returns None).
C6_CreatedNodeVisited ==
    (wpc = "returned" /\ AllNone) =>
        \A n \in CreatedNodes :
            ( /\ InRoot(n)
              /\ \E s \in Descended(wdef) : \E k \in DOMAIN nodes[s].refs :
                    /\ nodes[s].refs[k].tag = tagName(n)
                    /\ nodes[s].refs[k].text = getAttributeId(n) )
            => VisitCount(n) = 1


(***************************************************************************)
(* Properties of check_for_orphan_nodes, under SpecPrune.                  *)
(***************************************************************************)
\* the top-level nodes of one category when the document was loaded
Loaded(tag) == Range(top_nodes[tag])

\* the nodes of category tag that a reference of that category in one of
\* the nodes ns names
Named(ns, tag) ==
    { m \in Loaded(tag) : \E n \in ns : getAttributeId(m) \in Marked2(n, tag) }

RECURSIVE OperationsFrom(_)
OperationsFrom(ns) ==
    LET more == ns \cup Named(ns, "operation-list")
    IN  IF more = ns THEN ns ELSE OperationsFrom(more)

LiveEntryPoints == Named(Loaded("definition-list"), "entry-point-list")
LiveOperations ==
    OperationsFrom(Named(LiveEntryPoints, "operation-list"))
LiveActions == Named(LiveEntryPoints \cup LiveOperations, "action-list")

Remaining(tag) == { n \in Range(ElementChildren(root)) : tagName(n) = tag }

PruneCompleted == pruneRuns = 1 /\ ppc = "done"

\* C7: after a completed prune the entry points left in the document are
\* exactly those a definition references, the operations left are exactly
\* those reachable from them through operation-list references, and the
\* actions left are exactly those a live entry point or operation references.
C7_ExactlyNonLiveRemoved ==
    PruneCompleted =>
        /\ Remaining("entry-point-list") = LiveEntryPoints
        /\ Remaining("operation-list") = LiveOperations
        /\ Remaining("action-list") = LiveActions

\* C8: a second prune of the same document completes without an error and
\* removes nothing: from its start on the root keeps its children.
C8_SecondPruneIdempotent ==
    [][pruneRuns' = 2 =>
          (ppc' # "raised" /\ (pruneRuns = 2 => root' = root))]_vars

\* C9: the recursive collection of the live operations terminates: it never
\* ends in the recursion limit, whatever cycles the operations form.
C9_PruneTerminates == ~(ppc = "raised" /\ err = "RecursionError")

\* C10: a reference whose text resolves to no node raises no error in
\* prune: the lookup of an identifier never fails.
C10_DanglingTolerated == ~(ppc = "raised" /\ err = "KeyError")

\* C11: as soon as a predicate call returns anything but None, for an entry
\* point, an operation or an action, walkDefinition returns that value: the
\* call is the last one and its result is the result of the walk.
C11_ShortCircuit ==
    \A i \in DOMAIN calls :
        calls[i].result # "None" =>
            /\ i = Len(calls)
            /\ wpc = "returned"
            /\ wresult = calls[i].result

(***************************************************************************)
(* Properties of mk_toc, create_node and add_link, checked under Spec.     *)
(***************************************************************************)
\* the categories from position lo of the fixed order on that have a node
PresentFrom(r, lo) ==
    { k \in DOMAIN allowed_subelements :
        k >= lo /\ HasCategory(r, allowed_subelements[k]) }

\* the first node of a category in document order
FirstNode(r, tag) == ElementChildren(r)[FirstOf(r, tag)]

\* the first node of the last contiguous run of a category
LastRunFirst(r, tag) ==
    LET els == ElementChildren(r)
    IN  els[Max({ i \in RunStarts(els) : tagName(els[i]) = tag })]

\* the categories whose nodes are not one contiguous run
Scattered(r) ==
    { t \in Categories :
        HasCategory(r, t) /\ LastRunFirst(r, t) # FirstNode(r, t) }

\* C12 as stated: after mk_toc the reference point of every category is the
\* first node, in document order, of the nearest category at or after it
\* that has a node, and None when there is no such category.
C12_RefPointAtOrAfter ==
    fresh =>
        \A tag \in Categories :
            LET at == PresentFrom(root, CatPos(tag))
            IN  refChild[tag] =
                    IF at = {} THEN None
                    ELSE FirstNode(root, allowed_subelements[Min(at)])

\* C12 amended: after mk_toc the reference point of every category is the
\* first node of the last contiguous run of the nearest category strictly
\* after it that has a node, and None when no later category has a node.
C12_RefPointStrictlyAfter ==
    fresh =>
        \A tag \in Categories :
            LET after == PresentFrom(root, CatPos(tag) + 1)
            IN  refChild[tag] =
                    IF after = {} THEN None
                    ELSE LastRunFirst(root, allowed_subelements[Min(after)])

\* mk_toc has just run on a document with a category in two runs, a
\* category without nodes that inherits a reference point, and a category
\* with nodes whose reference point is a node of a later category
C12_Witness ==
    /\ fresh
    /\ Scattered(root) # {}
    /\ \E tag \in Categories : ~HasCategory(root, tag) /\ refChild[tag] # None
    /\ \E tag \in Categories :
          /\ HasCategory(root, tag)
          /\ refChild[tag] # None
          /\ tagName(refChild[tag]) # tag

\* the new node n is among the element children, right before ref or last
\* when ref is None, and the other element children are those of r, in order
PlacedBefore(r, rAfter, n, ref) ==
    LET els == ElementChildren(rAfter)
        at  == IndexOf(els, n)
    IN  /\ at # 0
        /\ IF ref = None THEN at = Len(els)
           ELSE at < Len(els) /\ els[at + 1] = ref
        /\ RemoveAt(els, at) = ElementChildren(r)

\* C13: a create_node call that succeeds puts the new node among the root's
\* children right before self.refChild[tag], with no element between them,
\* or last when that reference is None; the elements that were there keep
\* their order, and the node returned is the one inserted.
C13_PlacedBeforeRefChild ==
    [][ (ncreate' = ncreate + 1 /\ err' = "none")
        => /\ lastOp'.b = NewNode
           /\ nodes'[lastOp'.b].tag = lastOp'.tag
           /\ PlacedBefore(root, root', lastOp'.b, refChild[lastOp'.tag]) ]_vars

\* a node was just created between two elements that were there before
C13_Witness ==
    /\ lastOp.op = "create_node"
    /\ lastOp.b # None
    /\ refChild[lastOp.tag] # None
    /\ LET els == ElementChildren(root)
           at  == IndexOf(els, lastOp.b)
       IN  /\ at > 1
           /\ at < Len(els)
           /\ els[at + 1] = refChild[lastOp.tag]

\* C14: from a document whose first occurrences are in the fixed order,
\* mk_toc followed by one create_node of any category gives a document whose
\* first occurrences are in the fixed order.
C14_RelaxedOrderKept ==
    [][ ( /\ ncreate' = ncreate + 1
          /\ err' = "none"
          /\ fresh
          /\ FirstOccurrencesOrdered(root) )
        => FirstOccurrencesOrdered(root)' ]_vars

\* the declared identifier of a node: its id, or its name when it has no id
DeclaredIdentifier(n) == IF nodes[n].id # "" THEN nodes[n].id ELSE nodes[n].name

\* source has one more reference element, the last, for dest
LinkAppended(source, dest, from_attr, to_attr) ==
    /\ nodes'[source].refs =
          Append(nodes[source].refs,
                 [tag |-> tagName(dest), text |-> DeclaredIdentifier(dest),
                  from |-> from_attr, to |-> to_attr])
    /\ \A n \in DOMAIN nodes \ {source} : nodes'[n] = nodes[n]
    /\ DOMAIN nodes' = DOMAIN nodes
    /\ [nodes'[source] EXCEPT !.refs = <<>>] = [nodes[source] EXCEPT !.refs = <<>>]
    /\ root' = root
    /\ toc' = toc
    /\ refChild' = refChild

\* C15: add_link(source, dest, from, to) appends to source one reference
\* element with dest's tag, the two attributes and dest's declared identifier
\* (its id, or its name when the id is empty) as text; dest, the root's
\* children, toc and refChild stay as they are.
C15_LinkCarriesIdentifier ==
    [][ \A s \in TopElements, d \in TopElements, f \in LinkFroms :
            add_link(s, d, f, "entry") => LinkAppended(s, d, f, "entry") ]_vars

\* the reference elements of a node that add_link made (parsed ones have
\* from = "output")
LinkRefs(n) == SelectSeq(nodes[n].refs, LAMBDA r : r.from = "true")

RECURSIVE CountLinks(_)
CountLinks(S) ==
    IF S = {} THEN 0
    ELSE LET n == CHOOSE x \in S : TRUE
         IN  Len(LinkRefs(n)) + CountLinks(S \ {n})

\* C16: n add_link calls with the same arguments leave n identical reference
\* elements on source, the last n of its children, none of the calls fails,
\* and a walk made afterwards calls the predicate for dest at most once, and
\* exactly once when it returns after reaching source with dest resolved.
C16_MultiEdges ==
    /\ CountLinks(DOMAIN nodes) = nlink
    /\ lastOp.op = "add_link" => err = "none"
    /\ \A s \in DOMAIN nodes :
          LET l == LinkRefs(s)
              k == Len(nodes[s].refs)
          IN  l # <<>> =>
                /\ Len(l) = nlink
                /\ \A i \in DOMAIN l : l[i] = l[1] /\ nodes[s].refs[k - i + 1] = l[1]
                /\ VisitCount(Target(l[1].text)) <= 1
                /\ ( /\ wpc = "returned"
                     /\ AllNone
                     /\ s \in Descended(wdef)
                     /\ Target(l[1].text) # None )
                   => VisitCount(Target(l[1].text)) = 1

\* a walk has returned after two identical links were added to an operation
\* it descended, and it called the predicate once for their target
C16_Witness ==
    /\ nlink = 2
    /\ wpc = "returned"
    /\ AllNone
    /\ \E s \in Descended(wdef) :
          /\ Len(LinkRefs(s)) = 2
          /\ Target(LinkRefs(s)[1].text) # None
          /\ VisitCount(Target(LinkRefs(s)[1].text)) = 1

\* the texts of the tag elements of the node that index holds for an id
RefsOf(id, tag) == Range(RefTexts(index[id], tag))

RECURSIVE OperationIdsFrom(_)
OperationIdsFrom(ids) ==
    LET more == ids \cup UNION { RefsOf(id, "operation-list") : id \in ids }
    IN  IF more = ids THEN ids ELSE OperationIdsFrom(more)

\* the live sets of the document as loaded, none of its nodes removed
LoadedLiveEntryPoints ==
    UNION { Range(RefTexts(n, "entry-point-list")) : n \in Loaded("definition-list") }
LoadedLiveOperations ==
    OperationIdsFrom(UNION { RefsOf(id, "operation-list") : id \in LoadedLiveEntryPoints })
LoadedLiveActions ==
    UNION { RefsOf(id, "action-list") :
              id \in LoadedLiveEntryPoints \cup LoadedLiveOperations }

\* C17: the live operations and the live actions that check_for_orphan_nodes
\* uses are those of the document as it was loaded: the removals made by the
\* earlier lint calls of the same run do not change them.
C17_LivenessOfLoadedDocument ==
    /\ ppc \in {"lint_op", "lint_ac", "done"} => live.op = LoadedLiveOperations
    /\ ppc \in {"lint_ac", "done"} => live.ac = LoadedLiveActions

\* a run has ended that removed an entry point and an operation before it
\* collected live operations and live actions
C17_Witness ==
    /\ ppc = "done"
    /\ Remaining("entry-point-list") # Loaded("entry-point-list")
    /\ Remaining("operation-list") # Loaded("operation-list")
    /\ live.op # {}
    /\ live.ac # {}

\* C18: after check_for_orphan_nodes no entry of index and no entry of the
\* top_nodes lists is a node that is no longer a child of the root.
C18_IndexFollowsRemovals ==
    ppc = "done" =>
        /\ \A id \in DOMAIN index : index[id] # None => InRoot(index[id])
        /\ \A tag \in DOMAIN top_nodes :
              \A i \in DOMAIN top_nodes[tag] : InRoot(top_nodes[tag][i])

(***************************************************************************)
(* Properties of the indexing AlertingConfig and the report, checked under *)
(* SpecReport.                                                             *)
(***************************************************************************)
\* the nodes of category tag among the element children of r, in order
InDocumentOrder(r, tag) ==
    SelectSeq(ElementChildren(r), LAMBDA n : tagName(n) = tag)

C20_DocumentOrderKept ==
    \A n \in Range(ElementChildren(root)) :
        /\ KeyPos(list_by_tagname, tagName(n)) # 0
        /\ list_by_tagname[KeyPos(list_by_tagname, tagName(n))].listing
              = InDocumentOrder(root, tagName(n))

(***************************************************************************)
(* Properties of the constructor, checked under SpecLoad.                  *)
(***************************************************************************)
\* C21: a document whose root is not tagged AlertingConfig makes the
\* constructor fail at once, and no node, identifier or child of the root
\* is changed by the attempt.
C21_MalformedFailsUnchanged ==
    [][ rootTag # "AlertingConfig" =>
          /\ nodes' = nodes
          /\ root' = root
          /\ lpc = "parsed" => (lpc' = "raised" /\ err' = "AssertionError") ]_vars

(***************************************************************************)
(* Properties of mk_toc, create_node and add_link together, checked under  *)
(* SpecEdit.                                                               *)
(***************************************************************************)
\* C22: every reference point mk_toc produced that is not None is a direct
\* child of the root, and stays one through all later create_node and
\* add_link calls; create_node never fails for a reference child that is
\* not in the root.
C22_RefPointsInRoot ==
    /\ \A tag \in DOMAIN refChild : refChild[tag] # None => InRoot(refChild[tag])
    /\ err # "NotFoundErr"

\* mk_toc produced a reference point, and since then a node was created in
\* front of it and linked
C22_Witness ==
    /\ lastOp.op = "add_link"
    /\ ~fresh
    /\ \E tag \in DOMAIN refChild :
          /\ refChild[tag] # None
          /\ lastOp.b \in CreatedNodes
          /\ tagName(lastOp.b) = tag
          /\ IndexOf(root, lastOp.b) < IndexOf(root, refChild[tag])

(***************************************************************************)
(* The order of the predicate calls of walkDefinition, checked under       *)
(* SpecWalk.                                                               *)
(***************************************************************************)
\* the reference elements of category tag that node holds, in document order
Tasks(node, tag) ==
    [ i \in DOMAIN RefTexts(node, tag) |->
        [text |-> RefTexts(node, tag)[i], parent |-> node, tag |-> tag] ]

\* the calls a depth-first walk makes for the references in work, in order:
\* a target is visited once, with the holder of the reference that reached it
\* first; the action targets of a node come before its operation targets and
\* an operation or entry point is descended right after its visit.  A
\* reference that names no node ends the walk when it is to be descended.
RECURSIVE PreOrder(_, _, _)
PreOrder(work, s, acc) ==
    IF work = <<>> THEN acc
    ELSE LET t  == Head(work)
             el == Target(t.text)
         IN  IF el \in s THEN PreOrder(Tail(work), s, acc)
             ELSE IF t.tag = "action-list"
                  THEN PreOrder(Tail(work), s \cup {el}, Append(acc, <<el, t.parent>>))
             ELSE IF el = None THEN Append(acc, <<el, t.parent>>)
             ELSE PreOrder(Tasks(el, "action-list") \o Tasks(el, "operation-list")
                               \o Tail(work),
                           s \cup {el}, Append(acc, <<el, t.parent>>))

ExpectedOrder(d) == PreOrder(Tasks(d, "entry-point-list"), {}, <<>>)

\* the predicate calls made so far: the node and the parent of each
CallPairs == [ i \in DOMAIN calls |-> <<calls[i].node, calls[i].parent>> ]

IsPrefix(s, t) == Len(s) <= Len(t) /\ s = SubSeq(t, 1, Len(s))

\* C23: the predicate calls of a walk come in depth-first order: entry points
\* in document order, each descended before the next; in a descended node
\* its unvisited action targets first, then each operation target, visited
\* and fully descended before the next; the parent of a call is the node
\* holding the reference that first reached the target.
C23_TraversalOrder ==
    (wdef # None /\ tagName(wdef) = "definition-list") =>
        /\ IsPrefix(CallPairs, ExpectedOrder(wdef))
        /\ (wpc = "returned" /\ AllNone) => CallPairs = ExpectedOrder(wdef)

\* a finished walk in which a node holds an operation reference in front of
\* an action reference, and the action target was visited first
C23_Witness ==
    /\ wpc = "returned"
    /\ AllNone
    /\ \E i, j \in DOMAIN calls :
          /\ i < j
          /\ calls[i].parent = calls[j].parent
          /\ calls[i].node # None /\ calls[j].node # None
          /\ tagName(calls[i].node) = "action-list"
          /\ tagName(calls[j].node) = "operation-list"
          /\ LET refs == nodes[calls[i].parent].refs
             IN  \E a, b \in DOMAIN refs :
                    /\ b < a
                    /\ refs[a].tag = "action-list"
                    /\ Target(refs[a].text) = calls[i].node
                    /\ refs[b].tag = "operation-list"
                    /\ Target(refs[b].text) = calls[j].node

(***************************************************************************)
(* The calls generate makes, checked under SpecReport.                     *)
(***************************************************************************)
RECURSIVE DistinctTags(_)
\* the tags of the elements els, each once, in the order of first occurrence
DistinctTags(els) ==
    IF els = <<>> THEN <<>>
    ELSE LET init == DistinctTags(SubSeq(els, 1, Len(els) - 1))
             tag  == tagName(els[Len(els)])
         IN  IF tag \in Range(init) THEN init ELSE Append(init, tag)

\* the categories of the document that have a handler, in that order
HandledTags == SelectSeq(DistinctTags(ElementChildren(root)), LAMBDA tag : tag \in Handlers)

\* C24: generate calls prolog first, then the handler of each top-level
\* category of the document that has one, once each, in the order of the
\* categories' first occurrence and with all nodes of the category, then
\* epilog last.
C24_GenerateCalls ==
    /\ handled # <<>> => handled[1].call = "prolog"
    /\ rpc = "done" =>
          /\ Len(handled) = Len(HandledTags) + 2
          /\ handled[Len(handled)].call = "epilog"
          /\ \A i \in DOMAIN HandledTags :
                /\ handled[i + 1].call = HandledTags[i]
                /\ Range(handled[i + 1].listing)
                      = Range(InDocumentOrder(root, HandledTags[i]))
                /\ Len(handled[i + 1].listing)
                      = Len(InDocumentOrder(root, HandledTags[i]))

(***************************************************************************)
(* Properties of MappingMatcher, checked under SpecMatch.                  *)
(***************************************************************************)
\* obj is a mapping and every key of the pattern is either present with a
\* value its matcher accepts, or absent with the matcher Missing
MappingMatches(items, o) ==
    /\ o.isMapping
    /\ \A i \in DOMAIN items :
          \/ items[i][1] \in DOMAIN o.map /\ Accepts(items[i][2], o.map[items[i][1]])
          \/ items[i][1] \notin DOMAIN o.map /\ items[i][2] = "Missing"

\* C25: MappingMatcher(pattern)(obj) is True exactly when obj is a mapping
\* and every key of the pattern is present and accepted, or absent with the
\* matcher Missing, whatever the order in which the keys are examined; an
\* obj that is no mapping gives False.
C25_MappingMatcherExact ==
    mpc = "called" => ((matched = "True") <=> MappingMatches(validate, other))

(***************************************************************************)
(* Grouping of the top-level elements, checked under Spec.                 *)
(***************************************************************************)
\* the element children of r are grouped by category, the groups in the
\* order of allowed_subelements
Grouped(r) ==
    LET els == ElementChildren(r)
    IN  \A i, j \in DOMAIN els :
            i < j => CatPos(tagName(els[i])) <= CatPos(tagName(els[j]))

\* C26: from a document grouped by category in the fixed order, create_node
\* calls that each follow a rebuild of the category index leave the
\* document grouped by category in the fixed order.
C26_GroupedWithRebuild == (~staleInsert) => Grouped(root)

\* a node was created, after a rebuild, in a category that had a node
\* already and is followed by a later category, and another was created
\* before it
C26_Witness ==
    /\ ~staleInsert
    /\ ncreate = 2
    /\ lastOp.op = "create_node"
    /\ lastOp.b # None
    /\ Cardinality(CreatedNodes) = 2
    /\ \E m, k \in Range(ElementChildren(root)) \ CreatedNodes :
          /\ tagName(m) = lastOp.tag
          /\ CatPos(tagName(k)) > CatPos(lastOp.tag)
          /\ IndexOf(root, m) < IndexOf(root, lastOp.b)
          /\ IndexOf(root, lastOp.b) < IndexOf(root, k)

(***************************************************************************)
(* Resolution of references by walkDefinition, checked under               *)
(* SpecWalkMixed.                                                          *)
(***************************************************************************)
\* C27: a node handed to the predicate as the target of a reference element
\* of some category is a top-level node of that category, also when a node
\* of another category carries the identifier.
C27_TargetOfOwnCategory ==
    \A i \in DOMAIN calls :
        calls[i].node # None =>
            /\ InRoot(calls[i].node)
            /\ tagName(calls[i].node) = calls[i].tag

(***************************************************************************)
(* Properties of the removal of unwanted definitions, checked under        *)
(* SpecRemove.                                                             *)
(***************************************************************************)
\* the nodes reachable from the wanted definitions in the document as it is
WantedReachable == UNION { Reachable(d) : d \in wanted }

\* C28: the removal of the unwanted definitions and of the nodes walked from
\* them removes no node that is reachable from a wanted definition, also
\* when a wanted and an unwanted definition share an entry point, operation
\* or action.
C28_WantedGraphKept ==
    [][ rmpc = "removing" => \A n \in WantedReachable : InRoot(n)' ]_vars

(***************************************************************************)
(* Properties of a failing create_node, checked under Spec.                *)
(***************************************************************************)
\* no reference point can be looked up for tag: the category index was never
\* built, or tag is not one of the seven categories
NoReferencePoint(tag) == DOMAIN refChild = {} \/ tag \notin Categories

\* C29: a create_node call for which no reference point is available fails,
\* with TypeError when the category index was never built and with KeyError
\* when the tag is not one of the seven categories, and the children of the
\* root and the nodes are the same after the call as before it.
C29_FailedCreateKeepsRoot ==
    [][ (ncreate' # ncreate /\ NoReferencePoint(lastOp'.tag))
        => /\ err' = (IF DOMAIN refChild = {} THEN "TypeError" ELSE "KeyError")
           /\ root' = root
           /\ nodes' = nodes
           /\ lastOp'.b = None ]_vars

\* a call for a tag outside the seven categories has failed on a built index
C29_Witness ==
    /\ lastOp.op = "create_node"
    /\ lastOp.tag \notin Categories
    /\ DOMAIN refChild # {}
    /\ err = "KeyError"

(***************************************************************************)
(* Properties of the pruning of a document that holds nodes of the other   *)
(* categories, checked under SpecPruneBox.                                 *)
(***************************************************************************)
\* the categories lint is called for
PrunedCategories == {"entry-point-list", "operation-list", "action-list"}

\* C30: pruning removes top-level nodes of the categories entry-point-list,
\* operation-list and action-list only: every definition, adapter, grouped
\* box and component template of the document stays a child of the root,
\* also when it carries the id of an unused entry point, operation or action.
C30_OtherCategoriesKept ==
    \A n \in DOMAIN nodes :
        nodes[n].tag \notin PrunedCategories => InRoot(n)

=============================================================================
